---------------------------- MODULE Spec2Model ----------------------------
(***************************************************************************)
(* Model of the evaluation bot: the record store (database.py), the        *)
(* conversation handlers and their dispatch (handlers.py, main.py) and the *)
(* reminder scheduler with its startup catch-up pass (scheduler.py).       *)
(*                                                                         *)
(* Conventions.                                                            *)
(*  - Python None is NONE (strings) or NULL (numbers); a key missing from  *)
(*    context.user_data is ABSENT (strings) or 0 (ids, message ids).       *)
(*  - A datetime is a minute count since day 0: DateOf gives its date and  *)
(*    TimeStr its '%H:%M' time of day.  A day has MinutesPerDay minutes.   *)
(*  - A reminder_time string 'HH:MM' is the minute of the day it names;    *)
(*    zero-padded strings compare as these numbers do.                     *)
(*  - The created-at timestamp column is not modelled: no operation        *)
(*    modelled here reads it.                                              *)
(*  - Replies sent by the interactive handlers are taken to be delivered.  *)
(*    Send failures are modelled where the code handles them: the          *)
(*    scheduler, the catch-up pass and set_reminder_entry_point.  Store    *)
(*    failures are modelled in every store operation, in the runs whose    *)
(*    environment injects failures (faults).                               *)
(***************************************************************************)
EXTENDS Integers, Sequences, FiniteSets, TLC

\* ------------------------------------------------------------ bounds
MaxNotes == 3
MinutesPerDay == 3
ExtraMinutes == 1
NumUsers == 2
NoteCap == 1
StoreNotes == 2

\* ------------------------------------------------- program constants
ADMIN_CHAT_ID == 1
REMINDER_LIMIT == 2

\* ------------------------------------------------------------ values
NONE == "None"
ABSENT == "absent"
NULL == 0 - 1
END == "END"
TEXT_NOTE == "TEXT_NOTE"
IMAGE_NOTE == "IMAGE_NOTE"
REMINDER_TIME == "REMINDER_TIME"

Users == 1..NumUsers
Ids == 1..MaxNotes
Texts == {"t1", "t2"}
Images == {"i1", "i2"}
Slots == 0..(MinutesPerDay - 1)
\* The clock runs through day 0 and ExtraMinutes minutes of day 1.
LastMinute == MinutesPerDay + ExtraMinutes - 1

DateOf(ts) == ts \div MinutesPerDay
TimeStr(ts) == ts % MinutesPerDay

SetMax(S) == CHOOSE x \in S : \A y \in S : y <= x

\* ------------------------------------------------------ record store
\* One row of the evaluations table.
Evaluation(user_id, text_note, image_file_id) ==
    [user_id |-> user_id, text_note |-> text_note,
     image_file_id |-> image_file_id, reminder_enabled |-> FALSE,
     reminder_time |-> NULL, last_reminder_sent |-> NULL]

\* The id the table's integer primary key gives the next row.
NextId(db) == IF DOMAIN db = {} THEN 1 ELSE SetMax(DOMAIN db) + 1

Without(db, id) == [i \in (DOMAIN db) \ {id} |-> db[i]]

\* Every store operation takes the table db and ok, whether the unit of
\* work commits (FALSE: a fault inside it, rolled back), and gives the
\* table afterwards and what the caller gets back.
\* save_evaluation leaving the image_file_id column empty.
save_evaluation_dropping_image(db, user_id, text_note, image_file_id, ok) ==
    IF ok
    THEN [db |-> db @@ (NextId(db) :> Evaluation(user_id, text_note, NONE)),
          ret |-> NextId(db)]
    ELSE [db |-> db, ret |-> 0]

save_evaluation(db, user_id, text_note, image_file_id, ok) ==
    IF ok
    THEN [db |-> db @@ (NextId(db) :> Evaluation(user_id, text_note, image_file_id)),
          ret |-> NextId(db)]
    ELSE [db |-> db, ret |-> 0]

get_all_evaluations(db, user_id, ok) ==
    IF ok THEN {i \in DOMAIN db : db[i].user_id = user_id} ELSE {}

get_evaluation_by_id(db, evaluation_id, user_id, ok) ==
    IF ok /\ evaluation_id \in DOMAIN db /\ db[evaluation_id].user_id = user_id
    THEN evaluation_id
    ELSE 0

NotSentBefore(row, today) ==
    \/ row.last_reminder_sent = NULL
    \/ DateOf(row.last_reminder_sent) < today

\* get_missed_reminders giving no more than REMINDER_LIMIT rows.
get_missed_reminders_capped(db, nowts, ok) ==
    LET missed == {i \in DOMAIN db :
                     /\ db[i].reminder_enabled
                     /\ db[i].reminder_time # NULL
                     /\ db[i].reminder_time < TimeStr(nowts)
                     /\ NotSentBefore(db[i], DateOf(nowts))}
    IN  IF ok
        THEN {i \in missed : Cardinality({j \in missed : j < i}) < REMINDER_LIMIT}
        ELSE {}

get_missed_reminders(db, nowts, ok) ==
    IF ok
    THEN {i \in DOMAIN db :
            /\ db[i].reminder_enabled
            /\ db[i].reminder_time # NULL
            /\ db[i].reminder_time < TimeStr(nowts)
            /\ NotSentBefore(db[i], DateOf(nowts))}
    ELSE {}

\* get_due_reminders without its filter on last_reminder_sent.
get_due_reminders_ignoring_last_sent(db, time_str, utcnow, ok) ==
    IF ok
    THEN {i \in DOMAIN db :
            /\ db[i].reminder_enabled
            /\ db[i].reminder_time = time_str}
    ELSE {}

get_due_reminders(db, time_str, utcnow, ok) ==
    IF ok
    THEN {i \in DOMAIN db :
            /\ db[i].reminder_enabled
            /\ db[i].reminder_time = time_str
            /\ NotSentBefore(db[i], DateOf(utcnow))}
    ELSE {}

\* delete_evaluation without its filter on user_id.
delete_evaluation_any_owner(db, evaluation_id, user_id, ok) ==
    IF ok /\ evaluation_id \in DOMAIN db
    THEN [db |-> Without(db, evaluation_id), ret |-> TRUE]
    ELSE [db |-> db, ret |-> FALSE]

delete_evaluation(db, evaluation_id, user_id, ok) ==
    IF ok /\ evaluation_id \in DOMAIN db /\ db[evaluation_id].user_id = user_id
    THEN [db |-> Without(db, evaluation_id), ret |-> TRUE]
    ELSE [db |-> db, ret |-> FALSE]

\* update_evaluation_reminder leaving reminder_time as it was on disable.
update_evaluation_reminder_keeps_time(db, evaluation_id, enabled, time, ok) ==
    IF ok /\ evaluation_id \in DOMAIN db
    THEN [db |-> [db EXCEPT ![evaluation_id] =
                    [@ EXCEPT !.reminder_enabled = enabled,
                              !.reminder_time = IF enabled THEN time ELSE @,
                              !.last_reminder_sent =
                                  IF enabled THEN @ ELSE NULL]],
          ret |-> TRUE]
    ELSE [db |-> db, ret |-> FALSE]

\* update_evaluation_reminder leaving last_reminder_sent as it was on disable.
update_evaluation_reminder_keeps_last_sent(db, evaluation_id, enabled, time, ok) ==
    IF ok /\ evaluation_id \in DOMAIN db
    THEN [db |-> [db EXCEPT ![evaluation_id] =
                    [@ EXCEPT !.reminder_enabled = enabled,
                              !.reminder_time = IF enabled THEN time ELSE NULL]],
          ret |-> TRUE]
    ELSE [db |-> db, ret |-> FALSE]

update_evaluation_reminder(db, evaluation_id, enabled, time, ok) ==
    IF ok /\ evaluation_id \in DOMAIN db
    THEN [db |-> [db EXCEPT ![evaluation_id] =
                    [@ EXCEPT !.reminder_enabled = enabled,
                              !.reminder_time = IF enabled THEN time ELSE NULL,
                              !.last_reminder_sent =
                                  IF enabled THEN @ ELSE NULL]],
          ret |-> TRUE]
    ELSE [db |-> db, ret |-> FALSE]

\* update_last_reminder_sent whose failed unit of work is not rolled back.
update_last_reminder_sent_without_rollback(db, evaluation_id, utcnow, ok) ==
    IF evaluation_id \in DOMAIN db
    THEN [db EXCEPT ![evaluation_id].last_reminder_sent = utcnow]
    ELSE db

update_last_reminder_sent(db, evaluation_id, utcnow, ok) ==
    IF ok /\ evaluation_id \in DOMAIN db
    THEN [db EXCEPT ![evaluation_id].last_reminder_sent = utcnow]
    ELSE db


\* ----------------------------------------------------------- state
VARIABLES
    evaluations,   \* the evaluations table: id -> row
    user_data,     \* context.user_data of each user (persisted)
    conv,          \* state of each user's two ConversationHandlers (persisted)
    now,           \* datetime.utcnow(), in minutes
    proc,          \* "down", "catchup" (post_init running) or "up"
    tickDue,       \* the cron trigger has fired for this minute, job not yet run
    job,           \* the scheduler pass in progress
    faults,        \* whether the environment injects send and store failures
    bodySends,     \* per id: note bodies sent to the owner on the current day
    caughtUp,      \* ids whose first body of the current day a catch-up pass sent
    last           \* the step taken last and what it answered

vars == <<evaluations, user_data, conv, now, proc, tickDue, job, faults,
          bodySends, caughtUp, last>>

\* ---------------------------------------------------------- updates
\* An inbound update: a command, a plain text message (s = "hh:mm" with n
\* the minute it names, n = MinutesPerDay standing for an out-of-range
\* time such as 25:99), a photo (s its file id) or a button press
\* (s the action, n the evaluation id of its callback data).
Command(c) == [kind |-> "command", s |-> c, n |-> 0]
Text(t) == [kind |-> "text", s |-> t, n |-> 0]
TimeText(n) == [kind |-> "text", s |-> "hh:mm", n |-> n]
Photo(f) == [kind |-> "photo", s |-> f, n |-> 0]
Button(a, id) == [kind |-> "callback", s |-> a, n |-> id]

Commands == {"/start", "/list_evaluations", "/new_evaluation", "/cancel",
             "/done", "/skip", "/help"}
ButtonActions == {"set_reminder", "disable_reminder", "delete_eval",
                  "confirm_delete", "cancel_delete"}

\* datetime.strptime(text, '%H:%M') then strftime: the minute of the day,
\* or NULL for ValueError.
ParseTime(upd) ==
    IF upd.kind = "text" /\ upd.s = "hh:mm" /\ upd.n \in Slots THEN upd.n ELSE NULL

EmptyUserData ==
    [current_evaluation_text |-> ABSENT,
     current_evaluation_image_file_id |-> ABSENT,
     current_evaluation_id_for_reminder |-> 0,
     message_to_edit_id |-> 0]

\* dict.get: None for a missing key.
Get(v) == IF v = ABSENT THEN NONE ELSE v

\* ---------------------------------------------------------- dispatch
\* A gate that stops nobody.
pre_update_callback_open(user_id) == FALSE

\* pre_update_callback: TRUE when the update is stopped (ApplicationHandlerStop).
pre_update_callback(user_id) == user_id # ADMIN_CHAT_ID

\* The fallbacks every conversation shares.
shared_fallbacks(upd) ==
    IF upd.kind = "command" /\ upd.s = "/cancel" THEN "cancel_command"
    ELSE IF upd.kind = "command" THEN "unknown_command_in_conv"
    ELSE "pass"

\* new_evaluation_conversation without the plain-text handler of IMAGE_NOTE.
new_evaluation_conv_handler_without_text_in_image(st, upd) ==
    IF st = END
    THEN IF upd.kind = "command" /\ upd.s = "/new_evaluation"
         THEN "new_evaluation_command" ELSE "pass"
    ELSE IF st = TEXT_NOTE
    THEN IF upd.kind = "command" /\ upd.s = "/new_evaluation"
         THEN "new_evaluation_command"
         ELSE IF upd.kind = "text" THEN "receive_text_note"
         ELSE shared_fallbacks(upd)
    ELSE IF st = IMAGE_NOTE
    THEN IF upd.kind = "command" /\ upd.s = "/new_evaluation"
         THEN "new_evaluation_command"
         ELSE IF upd.kind = "photo" THEN "receive_image_note"
         ELSE IF upd.kind = "command" /\ upd.s = "/done" THEN "receive_image_note"
         ELSE shared_fallbacks(upd)
    ELSE IF upd.kind = "command" /\ upd.s = "/skip" THEN "skip_reminder"
         ELSE IF upd.kind = "text" THEN "receive_reminder_time"
         ELSE shared_fallbacks(upd)

\* new_evaluation_conversation: the handler that takes upd in state st.
new_evaluation_conv_handler(st, upd) ==
    IF st = END
    THEN IF upd.kind = "command" /\ upd.s = "/new_evaluation"
         THEN "new_evaluation_command" ELSE "pass"
    ELSE IF st = TEXT_NOTE
    THEN IF upd.kind = "command" /\ upd.s = "/new_evaluation"
         THEN "new_evaluation_command"
         ELSE IF upd.kind = "text" THEN "receive_text_note"
         ELSE shared_fallbacks(upd)
    ELSE IF st = IMAGE_NOTE
    THEN IF upd.kind = "command" /\ upd.s = "/new_evaluation"
         THEN "new_evaluation_command"
         ELSE IF upd.kind = "photo" THEN "receive_image_note"
         ELSE IF upd.kind = "command" /\ upd.s = "/done" THEN "receive_image_note"
         ELSE IF upd.kind = "text" THEN "receive_image_note"
         ELSE shared_fallbacks(upd)
    ELSE IF upd.kind = "command" /\ upd.s = "/skip" THEN "skip_reminder"
         ELSE IF upd.kind = "text" THEN "receive_reminder_time"
         ELSE shared_fallbacks(upd)

\* set_reminder_conversation.
set_reminder_conv_handler(st, upd) ==
    IF st = END
    THEN IF upd.kind = "callback" /\ upd.s = "set_reminder"
         THEN "set_reminder_entry_point" ELSE "pass"
    ELSE IF upd.kind = "text" THEN "receive_reminder_time"
         ELSE shared_fallbacks(upd)

\* The handlers of group 0 in the order they were added: the first that
\* matches takes the update.  by: the conversation it belongs to.
Route(u, upd) ==
    IF pre_update_callback(u) THEN [by |-> "none", handler |-> "rejected"]
    ELSE IF upd.kind = "command" /\ upd.s = "/start"
    THEN [by |-> "none", handler |-> "start_command"]
    ELSE IF upd.kind = "command" /\ upd.s = "/list_evaluations"
    THEN [by |-> "none", handler |-> "list_evaluations_command"]
    ELSE IF new_evaluation_conv_handler(conv[u].new, upd) # "pass"
    THEN [by |-> "new", handler |-> new_evaluation_conv_handler(conv[u].new, upd)]
    ELSE IF set_reminder_conv_handler(conv[u].set, upd) # "pass"
    THEN [by |-> "set", handler |-> set_reminder_conv_handler(conv[u].set, upd)]
    ELSE IF upd.kind = "callback" /\ upd.s # "set_reminder"
    THEN [by |-> "none", handler |-> "button_callback_handler"]
    ELSE [by |-> "none", handler |-> "unhandled"]

\* Updates are processed while the application runs.
Routed(u, upd, by, handler) ==
    /\ proc = "up"
    /\ Route(u, upd) = [by |-> by, handler |-> handler]

\* ----------------------------------------------------------- helpers
\* An operation may fail only where the environment injects failures.
Allowed(ok) == ok \/ faults

\* One step's answer.
SaidAbout(op, u, by, reply, id) ==
    [op |-> op, user |-> u, by |-> by, reply |-> reply, id |-> id]
Said(op, u, by, reply) == SaidAbout(op, u, by, reply, 0)

SchedulerVars == <<now, proc, tickDue, job, bodySends, caughtUp, faults>>

\* The conversation by of user u moves to st.
ConvTo(u, by, st) ==
    conv' = [conv EXCEPT ![u] = IF by = "new" THEN [@ EXCEPT !.new = st]
                                 ELSE [@ EXCEPT !.set = st]]

\* ---------------------------------------------------------- handlers
\* An update from a user other than the owner: answered and dropped.
Rejected(u, upd) ==
    /\ Routed(u, upd, "none", "rejected")
    /\ last' = Said("rejected", u, "none",
                    IF upd.kind = "callback" THEN "alert_not_allowed"
                    ELSE "reply_owner_only")
    /\ UNCHANGED <<evaluations, user_data, conv>>
    /\ UNCHANGED SchedulerVars

\* An update no handler matches.
Unhandled(u, upd) ==
    /\ Routed(u, upd, "none", "unhandled")
    /\ last' = Said("unhandled", u, "none", "nothing")
    /\ UNCHANGED <<evaluations, user_data, conv>>
    /\ UNCHANGED SchedulerVars

start_command(u, upd) ==
    /\ Routed(u, upd, "none", "start_command")
    /\ last' = Said("start_command", u, "none", "welcome")
    /\ UNCHANGED <<evaluations, user_data, conv>>
    /\ UNCHANGED SchedulerVars

list_evaluations_command(u, upd) ==
    /\ Routed(u, upd, "none", "list_evaluations_command")
    /\ \E ok \in BOOLEAN :
        /\ Allowed(ok)
        /\ last' = Said("list_evaluations_command", u, "none",
                        IF get_all_evaluations(evaluations, u, ok) = {}
                        THEN "no_evaluations" ELSE "listed")
    /\ UNCHANGED <<evaluations, user_data, conv>>
    /\ UNCHANGED SchedulerVars

new_evaluation_command(u, upd) ==
    /\ Routed(u, upd, "new", "new_evaluation_command")
    /\ ConvTo(u, "new", TEXT_NOTE)
    /\ last' = Said("new_evaluation_command", u, "new", "ask_text")
    /\ UNCHANGED <<evaluations, user_data>>
    /\ UNCHANGED SchedulerVars

\* receive_text_note leaving the image of an earlier text in user_data.
receive_text_note_keeping_image(u, upd) ==
    /\ Routed(u, upd, "new", "receive_text_note")
    /\ user_data' = [user_data EXCEPT ![u] =
                        [@ EXCEPT !.current_evaluation_text = upd.s]]
    /\ ConvTo(u, "new", IMAGE_NOTE)
    /\ last' = Said("receive_text_note", u, "new", "text_received")
    /\ UNCHANGED <<evaluations>>
    /\ UNCHANGED SchedulerVars

receive_text_note(u, upd) ==
    /\ Routed(u, upd, "new", "receive_text_note")
    /\ user_data' = [user_data EXCEPT ![u] =
                        [@ EXCEPT !.current_evaluation_text = upd.s,
                                  !.current_evaluation_image_file_id = NONE]]
    /\ ConvTo(u, "new", IMAGE_NOTE)
    /\ last' = Said("receive_text_note", u, "new", "text_received")
    /\ UNCHANGED <<evaluations>>
    /\ UNCHANGED SchedulerVars

\* receive_image_note without its check for an empty note.
ImageNoteResult_saving_empty(u, upd, ok) ==
    LET d == user_data[u]
        text_note == Get(d.current_evaluation_text)
        image_file_id == Get(d.current_evaluation_image_file_id)
        saved == save_evaluation(evaluations, u, text_note, image_file_id, ok)
    IN  IF upd.kind = "photo"
        THEN [data |-> [d EXCEPT !.current_evaluation_image_file_id = upd.s],
              db |-> evaluations, state |-> IMAGE_NOTE, reply |-> "image_received",
              db_calls |-> 0]
        ELSE IF upd.kind = "command" /\ upd.s = "/done"
        THEN IF saved.ret # 0
             THEN [data |-> [d EXCEPT !.current_evaluation_id_for_reminder = saved.ret],
                   db |-> saved.db, state |-> REMINDER_TIME,
                   reply |-> "saved_ask_time", db_calls |-> 1]
             ELSE [data |-> EmptyUserData, db |-> saved.db, state |-> END,
                   reply |-> "save_failed", db_calls |-> 1]
        ELSE [data |-> d, db |-> evaluations, state |-> IMAGE_NOTE,
              reply |-> "only_image_or_done", db_calls |-> 0]

\* What receive_image_note does with upd: the user's data, the table, the
\* next state and the reply.
ImageNoteResult(u, upd, ok) ==
    LET d == user_data[u]
        text_note == Get(d.current_evaluation_text)
        image_file_id == Get(d.current_evaluation_image_file_id)
        saved == save_evaluation(evaluations, u, text_note, image_file_id, ok)
    IN  IF upd.kind = "photo"
        THEN [data |-> [d EXCEPT !.current_evaluation_image_file_id = upd.s],
              db |-> evaluations, state |-> IMAGE_NOTE, reply |-> "image_received",
              db_calls |-> 0]
        ELSE IF upd.kind = "command" /\ upd.s = "/done"
        THEN IF text_note = NONE /\ image_file_id = NONE
             THEN [data |-> d, db |-> evaluations, state |-> END,
                   reply |-> "nothing_given_aborted", db_calls |-> 0]
             ELSE IF saved.ret # 0
             THEN [data |-> [d EXCEPT !.current_evaluation_id_for_reminder = saved.ret],
                   db |-> saved.db, state |-> REMINDER_TIME,
                   reply |-> "saved_ask_time", db_calls |-> 1]
             ELSE [data |-> EmptyUserData, db |-> saved.db, state |-> END,
                   reply |-> "save_failed", db_calls |-> 1]
        ELSE [data |-> d, db |-> evaluations, state |-> IMAGE_NOTE,
              reply |-> "only_image_or_done", db_calls |-> 0]

receive_image_note(u, upd) ==
    /\ Routed(u, upd, "new", "receive_image_note")
    /\ \E ok \in BOOLEAN :
        LET r == ImageNoteResult(u, upd, ok) IN
        /\ Allowed(ok)
        /\ ~ok => r.db_calls = 1
        /\ ok /\ r.db_calls = 1 => NextId(evaluations) \in Ids
        /\ Cardinality(DOMAIN r.db) <= NoteCap
        /\ user_data' = [user_data EXCEPT ![u] = r.data]
        /\ evaluations' = r.db
        /\ bodySends' = IF r.db_calls = 1 /\ ok
                        THEN [bodySends EXCEPT ![NextId(evaluations)] = 0]
                        ELSE bodySends
        /\ caughtUp' = IF r.db_calls = 1 /\ ok
                       THEN caughtUp \ {NextId(evaluations)}
                       ELSE caughtUp
        /\ ConvTo(u, "new", r.state)
        /\ last' = SaidAbout("receive_image_note", u, "new", r.reply,
                             IF r.reply = "saved_ask_time"
                             THEN NextId(evaluations) ELSE 0)
    /\ UNCHANGED <<now, proc, tickDue, job, faults>>

cancel_command(u, upd) ==
    /\ \E by \in {"new", "set"} :
        /\ Routed(u, upd, by, "cancel_command")
        /\ ConvTo(u, by, END)
        /\ last' = Said("cancel_command", u, by, "cancelled")
    /\ user_data' = [user_data EXCEPT ![u] = EmptyUserData]
    /\ UNCHANGED <<evaluations>>
    /\ UNCHANGED SchedulerVars

skip_reminder(u, upd) ==
    /\ Routed(u, upd, "new", "skip_reminder")
    /\ user_data' = [user_data EXCEPT ![u] = EmptyUserData]
    /\ ConvTo(u, "new", END)
    /\ last' = Said("skip_reminder", u, "new", "reminder_skipped")
    /\ UNCHANGED <<evaluations>>
    /\ UNCHANGED SchedulerVars

unknown_command_in_conv(u, upd) ==
    /\ \E by \in {"new", "set"} :
        /\ Routed(u, upd, by, "unknown_command_in_conv")
        /\ last' = Said("unknown_command_in_conv", u, by, "finish_or_cancel")
    /\ UNCHANGED <<evaluations, user_data, conv>>
    /\ UNCHANGED SchedulerVars

\* sent: whether editing the message that carried the button succeeded.
set_reminder_entry_point(u, upd) ==
    /\ Routed(u, upd, "set", "set_reminder_entry_point")
    /\ user_data' = [user_data EXCEPT ![u] =
                        [@ EXCEPT !.current_evaluation_id_for_reminder = upd.n,
                                  !.message_to_edit_id = upd.n]]
    /\ \E sent \in BOOLEAN :
        /\ Allowed(sent)
        /\ ConvTo(u, "set", IF sent THEN REMINDER_TIME ELSE END)
        /\ last' = SaidAbout("set_reminder_entry_point", u, "set",
                             IF sent THEN "ask_time_in_place" ELSE "edit_failed",
                             upd.n)
    /\ UNCHANGED evaluations
    /\ UNCHANGED SchedulerVars

\* What receive_reminder_time does with upd; ok1 and ok2 are the outcomes
\* of its two store operations.
ReminderTimeResult(u, upd, ok1, ok2) ==
    LET d == user_data[u]
        evaluation_id == d.current_evaluation_id_for_reminder
        message_to_edit_id == d.message_to_edit_id
        popped == [d EXCEPT !.message_to_edit_id = 0]
        reminder_time_str == ParseTime(upd)
        updated == update_evaluation_reminder(evaluations, evaluation_id, TRUE,
                                              reminder_time_str, ok1)
        eval_item == get_evaluation_by_id(updated.db, evaluation_id, u, ok2)
    IN  IF evaluation_id = 0
        THEN [data |-> popped, db |-> evaluations, state |-> END,
              reply |-> "id_not_found", db_calls |-> 0]
        ELSE IF reminder_time_str = NULL
        THEN [data |-> popped, db |-> evaluations, state |-> REMINDER_TIME,
              reply |-> "invalid_time_format", db_calls |-> 0]
        ELSE [data |-> [popped EXCEPT !.current_evaluation_id_for_reminder = 0],
              db |-> updated.db, state |-> END,
              reply |-> IF ~updated.ret THEN "set_failed"
                        ELSE IF message_to_edit_id # 0 /\ eval_item # 0
                        THEN "edited_in_place"
                        ELSE "confirmation_sent",
              db_calls |-> IF updated.ret /\ message_to_edit_id # 0 THEN 2 ELSE 1]

receive_reminder_time(u, upd) ==
    \E by \in {"new", "set"}, ok1 \in BOOLEAN, ok2 \in BOOLEAN :
        LET r == ReminderTimeResult(u, upd, ok1, ok2) IN
        /\ Routed(u, upd, by, "receive_reminder_time")
        /\ Allowed(ok1) /\ Allowed(ok2)
        /\ ~ok1 => r.db_calls >= 1
        /\ ~ok2 => r.db_calls = 2
        /\ user_data' = [user_data EXCEPT ![u] = r.data]
        /\ evaluations' = r.db
        /\ ConvTo(u, by, r.state)
        /\ last' = SaidAbout("receive_reminder_time", u, by, r.reply,
                             user_data[u].current_evaluation_id_for_reminder)
        /\ UNCHANGED SchedulerVars

\* button_callback_handler, one action per branch of its callback data.
button_disable_reminder(u, upd) ==
    /\ Routed(u, upd, "none", "button_callback_handler")
    /\ upd.s = "disable_reminder"
    /\ \E ok1 \in BOOLEAN, ok2 \in BOOLEAN :
        LET updated == update_evaluation_reminder(evaluations, upd.n, FALSE, NULL, ok1)
            eval_item == get_evaluation_by_id(updated.db, upd.n, u, ok2)
        IN  /\ Allowed(ok1) /\ Allowed(ok2)
            /\ ~ok2 => updated.ret
            /\ evaluations' = updated.db
            /\ last' = SaidAbout("button_disable_reminder", u, "none",
                                 IF ~updated.ret THEN "disable_failed"
                                 ELSE IF eval_item # 0 THEN "disabled_rendered"
                                 ELSE "disabled_fallback", upd.n)
    /\ UNCHANGED <<user_data, conv>>
    /\ UNCHANGED SchedulerVars

\* The delete button removing the note at once, without a confirmation.
button_delete_eval_without_confirmation(u, upd) ==
    /\ Routed(u, upd, "none", "button_callback_handler")
    /\ upd.s = "delete_eval"
    /\ evaluations' = delete_evaluation(evaluations, upd.n, u, TRUE).db
    /\ last' = SaidAbout("button_delete_eval", u, "none", "ask_confirmation", upd.n)
    /\ UNCHANGED <<user_data, conv>>
    /\ UNCHANGED SchedulerVars

button_delete_eval(u, upd) ==
    /\ Routed(u, upd, "none", "button_callback_handler")
    /\ upd.s = "delete_eval"
    /\ last' = SaidAbout("button_delete_eval", u, "none", "ask_confirmation", upd.n)
    /\ UNCHANGED <<evaluations, user_data, conv>>
    /\ UNCHANGED SchedulerVars

button_confirm_delete(u, upd) ==
    /\ Routed(u, upd, "none", "button_callback_handler")
    /\ upd.s = "confirm_delete"
    /\ \E ok \in BOOLEAN :
        LET deleted == delete_evaluation(evaluations, upd.n, u, ok) IN
        /\ Allowed(ok)
        /\ evaluations' = deleted.db
        /\ last' = SaidAbout("button_confirm_delete", u, "none",
                             IF deleted.ret THEN "deleted" ELSE "delete_failed",
                             upd.n)
    /\ UNCHANGED <<user_data, conv>>
    /\ UNCHANGED SchedulerVars

button_cancel_delete(u, upd) ==
    /\ Routed(u, upd, "none", "button_callback_handler")
    /\ upd.s = "cancel_delete"
    /\ \E ok \in BOOLEAN :
        /\ Allowed(ok)
        /\ last' = SaidAbout("button_cancel_delete", u, "none",
                             IF get_evaluation_by_id(evaluations, upd.n, u, ok) # 0
                             THEN "restored" ELSE "deletion_cancelled", upd.n)
    /\ UNCHANGED <<evaluations, user_data, conv>>
    /\ UNCHANGED SchedulerVars

\* --------------------------------------------------------- scheduler
\* The EvaluationDTO a query hands the scheduler: a copy of the row.
EvaluationDTO(db, id) ==
    [id |-> id, user_id |-> db[id].user_id, image_file_id |-> db[id].image_file_id]

NoJob == [kind |-> "none", batch |-> <<>>, pc |-> "send", reminded_users |-> {}]

\* A sample that always takes the k lowest ids.
Sample_lowest_ids(S, k) ==
    {q \in [1..k -> S] :
        /\ \A i \in 1..k, j \in 1..k : i < j => q[i] < q[j]
        /\ \A x \in S : (\E i \in 1..k : q[i] = x)
                          \/ (\A i \in 1..k : q[i] < x)}

\* random.sample(population, k): k distinct members in any order.
Sample(S, k) ==
    {q \in [1..k -> S] : \A i \in 1..k, j \in 1..k : q[i] = q[j] => i = j}

\* min that gives its first argument whatever the second.
Min_uncapped(a, b) == a

Min(a, b) == IF a <= b THEN a ELSE b

\* The loop of a pass ending at the first item that is done or has failed.
NextItem_aborting(reminded_users) ==
    /\ job' = NoJob
    /\ proc' = IF job.kind = "catchup" THEN "up" ELSE proc

\* The pass goes on with the rest of its batch; after the last item a
\* catch-up pass returns and start_scheduler runs.
NextItem(reminded_users) ==
    /\ job' = IF Len(job.batch) = 1 THEN NoJob
              ELSE [job EXCEPT !.batch = Tail(@), !.pc = "send",
                               !.reminded_users = reminded_users]
    /\ proc' = IF Len(job.batch) = 1 /\ job.kind = "catchup" THEN "up" ELSE proc

\* post_init_telegram_app: the catch-up pass starts; with nothing missed it
\* returns at once and the scheduler starts.
send_missed_reminders ==
    /\ proc = "down"
    /\ \E ok \in BOOLEAN :
        LET missed == get_missed_reminders(evaluations, now, ok) IN
        /\ Allowed(ok)
        /\ \E q \in Sample(missed, Cardinality(missed)) :
            job' = [NoJob EXCEPT !.kind = IF missed = {} THEN "none" ELSE "catchup",
                                 !.batch = [i \in 1..Cardinality(missed) |->
                                               EvaluationDTO(evaluations, q[i])]]
        /\ proc' = IF missed = {} THEN "up" ELSE "catchup"
        /\ last' = SaidAbout("send_missed_reminders", 0, "catchup",
                             IF missed = {} THEN "nothing_missed" ELSE "found_missed",
                             0)
    /\ tickDue' = FALSE
    /\ UNCHANGED <<evaluations, user_data, conv, now, bodySends, caughtUp, faults>>

\* scheduler.running: from start_scheduler to shutdown_scheduler.  While
\* shutdown_event runs, the application may already be released
\* ("app_released") or its release may have failed ("release_failed").
TimerRunning == proc \in {"up", "app_released", "release_failed"}

\* The cron job: one run of send_reminders up to its first send.
send_reminders ==
    /\ TimerRunning /\ tickDue /\ job.kind = "none"
    /\ \E ok \in BOOLEAN :
        LET evaluations_to_send == get_due_reminders(evaluations, TimeStr(now), now, ok)
            num_to_sample == Min(Cardinality(evaluations_to_send), REMINDER_LIMIT)
        IN
        /\ Allowed(ok)
        /\ \E q \in Sample(evaluations_to_send, num_to_sample) :
            job' = [NoJob EXCEPT !.kind = IF num_to_sample = 0 THEN "none" ELSE "tick",
                                 !.batch = [i \in 1..num_to_sample |->
                                               EvaluationDTO(evaluations, q[i])]]
        /\ last' = SaidAbout("send_reminders", 0, "tick",
                             IF num_to_sample = 0 THEN "nothing_due" ELSE "selected", 0)
    /\ tickDue' = FALSE
    /\ UNCHANGED <<evaluations, user_data, conv, now, proc, bodySends, caughtUp, faults>>

\* What can happen to the sends of one item of a pass.
SendOutcomes(kind, item, reminded_users) ==
    {"sent", "body_failed"}
    \cup (IF kind = "catchup" \/ item.user_id \notin reminded_users
          THEN {"header_failed"} ELSE {})
    \cup (IF item.image_file_id # NONE THEN {"photo_failed"} ELSE {})
    \cup (IF kind = "tick" /\ item.image_file_id # NONE
          THEN {"photo_and_notice_failed"} ELSE {})
    \cup (IF kind = "tick" THEN {"separator_failed"} ELSE {})

BodySent(outcome) == outcome \notin {"header_failed", "body_failed"}

\* The sends of an item went through to its mark-sent step.
ReachesMark(kind, outcome) == outcome \in {"sent", "photo_failed"}

\* The messages of one item that reached the owner, by outcome.  A regular
\* tick answers a failed photo with a notice; the catch-up pass only logs it.
Delivered(kind, item, reminded_users, outcome) ==
    (IF outcome # "header_failed"
        /\ (kind = "catchup" \/ item.user_id \notin reminded_users)
     THEN {"header"} ELSE {})
    \cup (IF BodySent(outcome) THEN {"body"} ELSE {})
    \cup (IF item.image_file_id # NONE /\ outcome \in {"sent", "separator_failed"}
          THEN {"photo"} ELSE {})
    \cup (IF kind = "tick" /\ outcome = "photo_failed" THEN {"notice"} ELSE {})
    \cup (IF kind = "tick" /\ outcome \in {"sent", "photo_failed"}
          THEN {"separator"} ELSE {})

\* The messages of the first item of the batch: header, body, photo and,
\* in a regular tick, the separator.
SendItem ==
    /\ job.kind # "none" /\ job.pc = "send"
    /\ LET item == Head(job.batch) IN
       \E outcome \in SendOutcomes(job.kind, item, job.reminded_users) :
        /\ Allowed(outcome = "sent")
        /\ bodySends' = IF BodySent(outcome)
                        THEN [bodySends EXCEPT ![item.id] = Min(@ + 1, 2)]
                        ELSE bodySends
        /\ caughtUp' = IF job.kind = "catchup" /\ BodySent(outcome)
                          /\ bodySends[item.id] = 0
                       THEN caughtUp \cup {item.id} ELSE caughtUp
        /\ IF ReachesMark(job.kind, outcome)
           THEN /\ job' = [job EXCEPT !.pc = "mark",
                                      !.reminded_users =
                                          IF job.kind = "tick"
                                          THEN @ \cup {item.user_id} ELSE @]
                /\ UNCHANGED proc
           ELSE /\ NextItem(IF job.kind = "tick" /\ outcome # "header_failed"
                             THEN job.reminded_users \cup {item.user_id}
                             ELSE job.reminded_users)
        /\ last' = SaidAbout(IF job.kind = "tick" THEN "send_reminders"
                             ELSE "send_missed_reminders",
                             item.user_id, job.kind, outcome, item.id)
    /\ UNCHANGED <<evaluations, user_data, conv, now, tickDue, faults>>

\* database.update_last_reminder_sent for the item just sent.
MarkItem ==
    /\ job.kind # "none" /\ job.pc = "mark"
    /\ LET item == Head(job.batch) IN
       \E ok \in BOOLEAN :
        /\ Allowed(ok)
        /\ evaluations' = update_last_reminder_sent(evaluations, item.id, now, ok)
        /\ last' = SaidAbout("update_last_reminder_sent", item.user_id, job.kind,
                             IF ok THEN "marked" ELSE "mark_failed", item.id)
    /\ NextItem(job.reminded_users)
    /\ UNCHANGED <<user_data, conv, now, tickDue, bodySends, caughtUp, faults>>

\* A minute passes; the cron trigger fires when the scheduler runs and no
\* run of the job is still in progress.
AdvanceClock ==
    /\ now < LastMinute
    /\ now' = now + 1
    /\ tickDue' = (TimerRunning /\ job.kind = "none")
    /\ bodySends' = IF DateOf(now + 1) # DateOf(now)
                    THEN [i \in Ids |-> 0] ELSE bodySends
    /\ caughtUp' = IF DateOf(now + 1) # DateOf(now) THEN {} ELSE caughtUp
    /\ last' = Said("clock", 0, "none", "minute")
    /\ UNCHANGED <<evaluations, user_data, conv, proc, job, faults>>

\* The process stops; a pass in progress is lost.
Shutdown ==
    /\ proc # "down"
    /\ proc' = "down"
    /\ job' = NoJob
    /\ tickDue' = FALSE
    /\ last' = Said("shutdown", 0, "none", "stopped")
    /\ UNCHANGED <<evaluations, user_data, conv, now, bodySends, caughtUp, faults>>

\* ------------------------------------------------------ specification
\* The state after construction over the table db left by earlier runs.
InitWith(db, f) ==
    /\ evaluations = db
    /\ user_data = [u \in Users |-> EmptyUserData]
    /\ conv = [u \in Users |-> [new |-> END, set |-> END]]
    /\ now = 0
    /\ proc = "down"
    /\ tickDue = FALSE
    /\ job = NoJob
    /\ faults = f
    /\ bodySends = [i \in Ids |-> 0]
    /\ caughtUp = {}
    /\ last = Said("init", 0, "none", "nothing")

Init == InitWith(<<>>, TRUE)

Scheduler ==
    \/ send_missed_reminders
    \/ send_reminders
    \/ SendItem
    \/ MarkItem
    \/ AdvanceClock
    \/ Shutdown

\* The whole program with one owner who keeps at most NoteCap notes
\* (receive_image_note saves no more): the
\* creation dialogue, the reminder dialogue, the buttons and the scheduler.
OwnerUpdates ==
    {Command(c) : c \in {"/new_evaluation", "/done"}}
    \cup {Text("t1")}
    \cup {TimeText(n) : n \in Slots}
    \cup {Button(a, id) : a \in {"set_reminder", "disable_reminder", "confirm_delete"},
                          id \in 1..NoteCap}

Owner(u, upd) ==
    \/ new_evaluation_command(u, upd)
    \/ receive_text_note(u, upd)
    \/ receive_image_note(u, upd)
    \/ set_reminder_entry_point(u, upd)
    \/ receive_reminder_time(u, upd)
    \/ button_disable_reminder(u, upd)
    \/ button_confirm_delete(u, upd)

Next ==
    \/ \E upd \in OwnerUpdates : Owner(ADMIN_CHAT_ID, upd)
    \/ Scheduler

Spec == Init /\ [][Next]_vars

\* The same program where no send and no store operation fails and the
\* process stops only between two passes of the scheduler.
GracefulShutdown ==
    /\ job.kind = "none"
    /\ Shutdown

NextReliable ==
    \/ \E upd \in OwnerUpdates : Owner(ADMIN_CHAT_ID, upd)
    \/ send_missed_reminders
    \/ send_reminders
    \/ SendItem
    \/ MarkItem
    \/ AdvanceClock
    \/ GracefulShutdown

InitReliable == InitWith(<<>>, FALSE)

SpecReliable == InitReliable /\ [][NextReliable]_vars

\* The scheduler alone over a table left by earlier runs: MaxNotes notes
\* of the owner, each with or without an image, its reminder enabled for
\* the first minute of the day or for BacklogSlot and never sent.
BacklogSlot == MinutesPerDay - 2

BacklogRows ==
    {[Evaluation(ADMIN_CHAT_ID, "t1", f) EXCEPT !.reminder_enabled = TRUE,
                                                !.reminder_time = t] :
        f \in {NONE, "i1"}, t \in {0, BacklogSlot}}

Backlogs == [Ids -> BacklogRows]

InitBacklog == \E db \in Backlogs : InitWith(db, TRUE)

SpecBacklog == InitBacklog /\ [][Scheduler]_vars

\* The same where no send and no store operation fails and the process
\* stops only between two passes; a pass that has started runs its loop to
\* the end.
InitBacklogReliable == \E db \in Backlogs : InitWith(db, FALSE)

NextCatchUp ==
    \/ send_missed_reminders
    \/ send_reminders
    \/ SendItem
    \/ MarkItem
    \/ AdvanceClock
    \/ GracefulShutdown

SpecCatchUp ==
    /\ InitBacklogReliable
    /\ [][NextCatchUp]_vars
    /\ WF_vars(SendItem)
    /\ WF_vars(MarkItem)

\* The scheduler running day after day.  The clock runs through day 0 and
\* day 1; when day 1 ends every timestamp moves back by one day, so that
\* today is day 1 again and every earlier day is day 0 (the queries only
\* ask whether last_reminder_sent is before today).  A pass takes less than
\* a minute: the clock moves between passes.
ShiftBack(ts) ==
    IF ts = NULL THEN NULL
    ELSE IF ts >= MinutesPerDay THEN ts - MinutesPerDay
    ELSE ts

AdvanceDays ==
    /\ job.kind = "none"
    /\ now' = IF DateOf(now + 1) > 1 THEN MinutesPerDay ELSE now + 1
    /\ evaluations' =
          IF DateOf(now + 1) > 1
          THEN [i \in DOMAIN evaluations |->
                  [evaluations[i] EXCEPT !.last_reminder_sent = ShiftBack(@)]]
          ELSE evaluations
    /\ tickDue' = (TimerRunning /\ job.kind = "none")
    /\ bodySends' = IF DateOf(now + 1) # DateOf(now)
                    THEN [i \in Ids |-> 0] ELSE bodySends
    /\ caughtUp' = IF DateOf(now + 1) # DateOf(now) THEN {} ELSE caughtUp
    /\ last' = Said("clock", 0, "none", "minute")
    /\ UNCHANGED <<user_data, conv, proc, job, faults>>

\* The tick's run of send_reminders in which random.sample selects note i.
SelectsNote(i) ==
    /\ send_reminders
    /\ i \in {job'.batch[k].id : k \in 1..Len(job'.batch)}

NextDays ==
    \/ send_missed_reminders
    \/ send_reminders
    \/ SendItem
    \/ MarkItem
    \/ AdvanceDays

\* No send and no store operation fails; time passes, the process starts,
\* a started pass runs to its end, and random.sample, which gives every
\* member of the due list a positive chance in every run, does not leave
\* out the same note in all of infinitely many runs.
SpecDays ==
    /\ InitBacklogReliable
    /\ [][NextDays]_vars
    /\ WF_vars(AdvanceDays)
    /\ WF_vars(send_missed_reminders)
    /\ WF_vars(SendItem)
    /\ WF_vars(MarkItem)
    /\ \A i \in Ids : SF_vars(SelectsNote(i))

\* shutdown_event step by step, over a table with one enabled note.
\* First the application is stopped and shut down; an exception there
\* leaves shutdown_event at once.
StopApplication ==
    /\ proc = "up"
    /\ \E ok \in BOOLEAN :
        /\ Allowed(ok)
        /\ proc' = IF ok THEN "app_released" ELSE "release_failed"
        /\ last' = Said("shutdown_event", 0, "none",
                        IF ok THEN "application_shut_down" ELSE "application_stop_raised")
    /\ UNCHANGED <<evaluations, user_data, conv, now, tickDue, job, faults,
                   bodySends, caughtUp>>

\* Then, when the application was released, shutdown_scheduler stops the timer.
shutdown_scheduler ==
    /\ proc = "app_released"
    /\ proc' = "down"
    /\ job' = NoJob
    /\ tickDue' = FALSE
    /\ last' = Said("shutdown_scheduler", 0, "none", "scheduler_shut_down")
    /\ UNCHANGED <<evaluations, user_data, conv, now, faults, bodySends, caughtUp>>

\* After a failed release nothing stops the timer until the process ends.
ProcessExit ==
    /\ proc = "release_failed"
    /\ proc' = "down"
    /\ job' = NoJob
    /\ tickDue' = FALSE
    /\ last' = Said("exit", 0, "none", "stopped")
    /\ UNCHANGED <<evaluations, user_data, conv, now, faults, bodySends, caughtUp>>

InitLifecycle ==
    InitWith([i \in {NextId(<<>>)} |->
                [Evaluation(ADMIN_CHAT_ID, "t1", NONE)
                    EXCEPT !.reminder_enabled = TRUE,
                           !.reminder_time = BacklogSlot]], TRUE)

NextLifecycle ==
    \/ send_missed_reminders
    \/ send_reminders
    \/ SendItem
    \/ MarkItem
    \/ AdvanceClock
    \/ StopApplication
    \/ shutdown_scheduler
    \/ ProcessExit

SpecLifecycle == InitLifecycle /\ [][NextLifecycle]_vars

\* The dialogues alone, with every kind of update, from the owner and from
\* other users; the process starts once and the clock stands still.
DialogUpdates ==
    {Command(c) : c \in Commands}
    \cup {Text("t1")}
    \cup {TimeText(n) : n \in {0, MinutesPerDay}}
    \cup {Photo(f) : f \in Images}
    \cup {Button(a, id) : a \in ButtonActions, id \in 1..NoteCap}

Inbound(u, upd) ==
    \/ Rejected(u, upd)
    \/ Unhandled(u, upd)
    \/ start_command(u, upd)
    \/ list_evaluations_command(u, upd)
    \/ new_evaluation_command(u, upd)
    \/ receive_text_note(u, upd)
    \/ receive_image_note(u, upd)
    \/ cancel_command(u, upd)
    \/ skip_reminder(u, upd)
    \/ unknown_command_in_conv(u, upd)
    \/ set_reminder_entry_point(u, upd)
    \/ receive_reminder_time(u, upd)
    \/ button_disable_reminder(u, upd)
    \/ button_delete_eval(u, upd)
    \/ button_confirm_delete(u, upd)
    \/ button_cancel_delete(u, upd)

NextDialog ==
    \/ \E u \in Users, upd \in DialogUpdates : Inbound(u, upd)
    \/ send_missed_reminders

SpecDialog == Init /\ [][NextDialog]_vars

\* The same dialogues in an environment that injects no failures.
SpecDialogReliable == InitReliable /\ [][NextDialog]_vars

\* The handlers started over what PicklePersistence restored: any
\* transient memory and any conversation states of the owner.
UserDataValues ==
    [current_evaluation_text : {ABSENT, "t2"},
     current_evaluation_image_file_id : {ABSENT, NONE, "i2"},
     current_evaluation_id_for_reminder : 0..NoteCap,
     message_to_edit_id : 0..NoteCap]

ConvValues ==
    [new : {END, TEXT_NOTE, IMAGE_NOTE, REMINDER_TIME}, set : {END, REMINDER_TIME}]

InitHandlers ==
    /\ evaluations = <<>>
    /\ \E d \in UserDataValues :
        user_data = [u \in Users |-> IF u = ADMIN_CHAT_ID THEN d ELSE EmptyUserData]
    /\ \E c \in ConvValues :
        conv = [u \in Users |-> IF u = ADMIN_CHAT_ID THEN c
                                ELSE [new |-> END, set |-> END]]
    /\ now = 0
    /\ proc = "down"
    /\ tickDue = FALSE
    /\ job = NoJob
    /\ faults = TRUE
    /\ bodySends = [i \in Ids |-> 0]
    /\ caughtUp = {}
    /\ last = Said("init", 0, "none", "nothing")

SpecHandlers == InitHandlers /\ [][NextDialog]_vars

\* The record store alone, called with any arguments over any table.
Rows ==
    {[Evaluation(u, "t1", NONE) EXCEPT !.reminder_enabled = t # NULL,
                                       !.reminder_time = t] :
        u \in Users, t \in Slots \cup {NULL}}

\* The store-level runs keep at most StoreNotes rows.
StoreIds == 1..StoreNotes

Tables == UNION {[D -> Rows] : D \in SUBSET StoreIds}

StoreVars == <<user_data, conv, now, proc, tickDue, job, faults, bodySends, caughtUp>>

\* Who a store-level step is recorded as taken by: the unit of work
\* committed ("store") or hit a storage failure ("store_failed").
StoreBy(ok) == IF ok THEN "store" ELSE "store_failed"

StoreSave(u, text_note, image_file_id) ==
    \E ok \in BOOLEAN :
        LET saved == save_evaluation(evaluations, u, text_note, image_file_id, ok) IN
        /\ NextId(evaluations) \in StoreIds
        /\ evaluations' = saved.db
        /\ last' = SaidAbout("save_evaluation", u, StoreBy(ok),
                             IF saved.ret # 0 THEN "saved" ELSE "None", saved.ret)
        /\ UNCHANGED StoreVars

StoreList(u) ==
    \E ok \in BOOLEAN :
        /\ last' = SaidAbout("get_all_evaluations", u, StoreBy(ok),
                             IF get_all_evaluations(evaluations, u, ok) = {}
                             THEN "[]" ELSE "rows", 0)
        /\ UNCHANGED evaluations
        /\ UNCHANGED StoreVars

StoreGet(id, u) ==
    \E ok \in BOOLEAN :
        /\ last' = SaidAbout("get_evaluation_by_id", u, StoreBy(ok),
                             IF get_evaluation_by_id(evaluations, id, u, ok) # 0
                             THEN "found" ELSE "None", id)
        /\ UNCHANGED evaluations
        /\ UNCHANGED StoreVars

StoreMissed ==
    \E ok \in BOOLEAN :
        /\ last' = SaidAbout("get_missed_reminders", 0, StoreBy(ok),
                             IF get_missed_reminders(evaluations, now, ok) = {}
                             THEN "[]" ELSE "rows", 0)
        /\ UNCHANGED evaluations
        /\ UNCHANGED StoreVars

StoreDue(time_str) ==
    \E ok \in BOOLEAN :
        /\ last' = SaidAbout("get_due_reminders", 0, StoreBy(ok),
                             IF get_due_reminders(evaluations, time_str, now, ok) = {}
                             THEN "[]" ELSE "rows", 0)
        /\ UNCHANGED evaluations
        /\ UNCHANGED StoreVars

StoreDelete(id, u) ==
    \E ok \in BOOLEAN :
        LET deleted == delete_evaluation(evaluations, id, u, ok) IN
        /\ evaluations' = deleted.db
        /\ last' = SaidAbout("delete_evaluation", u, StoreBy(ok),
                             IF deleted.ret THEN "True" ELSE "False", id)
        /\ UNCHANGED StoreVars

StoreSetReminder(id, enabled, time) ==
    \E ok \in BOOLEAN :
        LET updated == update_evaluation_reminder(evaluations, id, enabled, time, ok) IN
        /\ evaluations' = updated.db
        /\ last' = SaidAbout("update_evaluation_reminder", 0, StoreBy(ok),
                             IF updated.ret THEN "True" ELSE "False", id)
        /\ UNCHANGED StoreVars

StoreMarkSent(id) ==
    \E ok \in BOOLEAN :
        /\ evaluations' = update_last_reminder_sent(evaluations, id, now, ok)
        /\ last' = SaidAbout("update_last_reminder_sent", 0, StoreBy(ok), "None", id)
        /\ UNCHANGED StoreVars

InitStore == \E db \in Tables : InitWith(db, TRUE)

\* The arguments the store-level runs pass: a note's text and image are
\* given or left at the default None, a reminder time is given or None.
NextStore ==
    \/ \E u \in Users, text_note \in {"t1", NONE}, image_file_id \in {"i1", NONE} :
        StoreSave(u, text_note, image_file_id)
    \/ \E u \in Users : StoreList(u)
    \/ \E id \in StoreIds, u \in Users : StoreGet(id, u)
    \/ StoreMissed
    \/ \E time_str \in Slots : StoreDue(time_str)
    \/ \E id \in StoreIds, u \in Users : StoreDelete(id, u)
    \/ \E id \in StoreIds, enabled \in BOOLEAN, time \in {0, NULL} :
        StoreSetReminder(id, enabled, time)
    \/ \E id \in StoreIds : StoreMarkSent(id)

SpecStore == InitStore /\ [][NextStore]_vars

\* -------------------------------------------------------- properties
SentToday(row) ==
    /\ row.last_reminder_sent # NULL
    /\ DateOf(row.last_reminder_sent) = DateOf(now)

\* C1: in every reachable state every stored note has reminder_enabled
\* true exactly when its reminder_time is not null.
C1_EnabledIffTime ==
    \A i \in DOMAIN evaluations :
        evaluations[i].reminder_enabled <=> evaluations[i].reminder_time # NULL

\* A note that was created, given a reminder time, delivered and marked.
C1_Witness ==
    /\ last.op = "update_last_reminder_sent" /\ last.reply = "marked"
    /\ last.id \in DOMAIN evaluations
    /\ evaluations[last.id].reminder_enabled
    /\ evaluations[last.id].reminder_time # NULL

\* C2: no note has its body sent to the owner more than once on the same
\* UTC day, whatever the ticks, restarts and reminder changes.
C2_OncePerDay == \A i \in Ids : bodySends[i] <= 1

\* C3: a note that had not been sent today and that the startup catch-up
\* pass delivered is delivered by no regular tick later on the same day.
C3_NoTickAfterCatchUp ==
    ~(/\ last.op = "send_reminders" /\ last.by = "tick"
      /\ last.reply \in SendOutcomes("tick", [user_id |-> 0, image_file_id |-> "i1"], {})
      /\ BodySent(last.reply)
      /\ last.id \in caughtUp)

\* C4: get_due_reminders(t) returns only notes with the reminder enabled
\* and reminder_time equal to t, and none whose last_reminder_sent falls on
\* the current day; the batch a tick selects is made of such notes.
C4_DueReminders ==
    /\ \A t \in Slots, ok \in BOOLEAN :
        \A i \in get_due_reminders(evaluations, t, now, ok) :
            /\ evaluations[i].reminder_enabled
            /\ evaluations[i].reminder_time = t
            /\ ~SentToday(evaluations[i])
    /\ (last.op = "send_reminders" /\ last.reply = "selected") =>
        \A k \in 1..Len(job.batch) :
            /\ job.batch[k].id \in DOMAIN evaluations
            /\ evaluations[job.batch[k].id].reminder_enabled
            /\ evaluations[job.batch[k].id].reminder_time = TimeStr(now)
            /\ ~SentToday(evaluations[job.batch[k].id])

\* A tick ran at the reminder time of an enabled note already sent today
\* and selected nothing.
C4_Witness ==
    /\ last.op = "send_reminders" /\ last.reply = "nothing_due"
    /\ \E i \in DOMAIN evaluations :
        /\ evaluations[i].reminder_enabled
        /\ evaluations[i].reminder_time = TimeStr(now)
        /\ SentToday(evaluations[i])

\* C5: after the disable button's store update succeeded on a note, the
\* note has reminder_enabled false, reminder_time null and
\* last_reminder_sent null.
C5_DisableClears ==
    (last.op = "button_disable_reminder" /\ last.reply # "disable_failed") =>
        /\ last.id \in DOMAIN evaluations
        /\ ~evaluations[last.id].reminder_enabled
        /\ evaluations[last.id].reminder_time = NULL
        /\ evaluations[last.id].last_reminder_sent = NULL

\* The reminder of a note delivered today has just been disabled.
C5_Witness ==
    /\ last.op = "button_disable_reminder" /\ last.reply # "disable_failed"
    /\ bodySends[last.id] >= 1
    /\ last.id \in DOMAIN evaluations

\* C6: for a note owned by A and a user B other than A, get(id, B) returns
\* nothing, and delete(id, B) returns false and leaves the table unchanged.
C6_ForeignNoteUntouched ==
    [][\A id \in DOMAIN evaluations, u \in Users :
        (evaluations[id].user_id # u /\ last'.id = id /\ last'.user = u) =>
            /\ last'.op = "get_evaluation_by_id" =>
                (last'.reply = "None" /\ evaluations' = evaluations)
            /\ last'.op = "delete_evaluation" =>
                (last'.reply = "False" /\ evaluations' = evaluations)]_vars

\* A delete of a note that is still stored was refused to a user who does
\* not own it.
C6_Witness ==
    /\ last.op = "delete_evaluation" /\ last.reply = "False"
    /\ last.id \in DOMAIN evaluations
    /\ evaluations[last.id].user_id # last.user
    /\ last.user \in Users

C8_CancelTerminates ==
    last.op = "cancel_command" =>
        /\ user_data[last.user] = EmptyUserData
        /\ conv[last.user] = [new |-> END, set |-> END]

\* C9: after a terminal transition (reminder set, empty-note abort, /skip,
\* /cancel) all four items of the sender's transient memory are absent.
C9_TerminalClears ==
    (\/ last.op = "receive_reminder_time"
        /\ last.reply \in {"edited_in_place", "confirmation_sent"}
     \/ last.op = "receive_image_note" /\ last.reply = "nothing_given_aborted"
     \/ last.op = "skip_reminder"
     \/ last.op = "cancel_command")
    => user_data[last.user] = EmptyUserData

\* C10: /done received by receive_image_note while neither a text nor an
\* image is held adds no note and ends the creation dialogue.
C10_EmptyDoneAborts ==
    [][\A u \in Users :
        (/\ last'.op = "receive_image_note" /\ last'.user = u
         /\ last'.reply \in {"nothing_given_aborted", "saved_ask_time", "save_failed"}
         /\ Get(user_data[u].current_evaluation_text) = NONE
         /\ Get(user_data[u].current_evaluation_image_file_id) = NONE)
        => /\ last'.reply = "nothing_given_aborted"
           /\ evaluations' = evaluations
           /\ conv'[u].new = END]_vars

\* The creation dialogue was ended by /done with nothing held.
C10_Witness ==
    /\ last.op = "receive_image_note" /\ last.reply = "nothing_given_aborted"
    /\ conv[last.user].new = END

\* C11: in the creation dialogue a text message is held as the note's text
\* and moves the dialogue on to the image, a photo is held as the note's
\* image beside that text, and /done with a text and an image held adds
\* exactly one note to the store: owned by the sender, carrying the held
\* text and image reference, reminder disabled; every other note stays as
\* it was and the dialogue moves to AWAITING_REMINDER_TIME.
C11_Dialogue(u) ==
    LET d == user_data[u]
        text_note == Get(d.current_evaluation_text)
        image_file_id == Get(d.current_evaluation_image_file_id)
    IN  /\ \A upd \in {t \in DialogUpdates : t.kind = "text"} :
            receive_text_note(u, upd) =>
                /\ user_data'[u].current_evaluation_text = upd.s
                /\ conv'[u].new = IMAGE_NOTE
                /\ evaluations' = evaluations
        /\ \A f \in Images :
            receive_image_note(u, Photo(f)) =>
                /\ user_data'[u].current_evaluation_image_file_id = f
                /\ user_data'[u].current_evaluation_text = d.current_evaluation_text
                /\ conv'[u].new = IMAGE_NOTE
                /\ evaluations' = evaluations
        /\ (/\ receive_image_note(u, Command("/done"))
            /\ text_note # NONE
            /\ image_file_id # NONE) =>
                /\ \E id \in Ids \ DOMAIN evaluations :
                    /\ DOMAIN evaluations' = DOMAIN evaluations \cup {id}
                    /\ evaluations'[id] =
                           [user_id |-> u, text_note |-> text_note,
                            image_file_id |-> image_file_id,
                            reminder_enabled |-> FALSE, reminder_time |-> NULL,
                            last_reminder_sent |-> NULL]
                /\ \A i \in DOMAIN evaluations : evaluations'[i] = evaluations[i]
                /\ conv'[u].new = REMINDER_TIME

C11_TextImageDoneAddsOneNote == [][\A u \in Users : C11_Dialogue(u)]_vars

\* A note with a text and an image has just been saved by /done and the
\* dialogue waits for the reminder time.
C11_Witness ==
    /\ last.op = "receive_image_note"
    /\ last.reply = "saved_ask_time"
    /\ last.id \in DOMAIN evaluations
    /\ evaluations[last.id].text_note \in Texts \cup {"hh:mm"}
    /\ evaluations[last.id].image_file_id \in Images
    /\ evaluations[last.id].user_id = last.user
    /\ conv[last.user].new = REMINDER_TIME

\* The conversation of user u that takes upd.
TakenBy(u, upd) == Route(u, upd).by

\* C12: in AWAITING_REMINDER_TIME a text that is not a valid HH:MM time is
\* answered with the re-prompt, changes no note and leaves the dialogue in
\* AWAITING_REMINDER_TIME; a valid time sets the configured note's
\* reminder_enabled to true and its reminder_time to that time and ends the
\* dialogue.
C12_ReminderTime(u, upd) ==
    LET evaluation_id == user_data[u].current_evaluation_id_for_reminder
        by == TakenBy(u, upd)
    IN  receive_reminder_time(u, upd) =>
            IF ParseTime(upd) = NULL
            THEN /\ last'.reply = "invalid_time_format"
                 /\ evaluations' = evaluations
                 /\ conv'[u] = conv[u]
                 /\ conv'[u][by] = REMINDER_TIME
            ELSE /\ evaluation_id \in DOMAIN evaluations =>
                        /\ evaluations'[evaluation_id].reminder_enabled
                        /\ evaluations'[evaluation_id].reminder_time = ParseTime(upd)
                 /\ conv'[u][by] = END

C12_InvalidTimeReprompts ==
    [][\A u \in Users : \A upd \in {t \in DialogUpdates : t.kind = "text"} :
            C12_ReminderTime(u, upd)]_vars

\* C17: a store operation that hits a storage failure hands its caller the
\* empty or failure result (None, the empty list or False) and leaves the
\* table exactly as it was.
C17_StoreFailureContained ==
    [][last'.by = "store_failed" =>
            /\ last'.reply \in {"None", "[]", "False"}
            /\ evaluations' = evaluations]_vars

\* The stamping of a stored, never-stamped note hit a storage failure.
C17_Witness ==
    /\ last.by = "store_failed"
    /\ last.op = "update_last_reminder_sent"
    /\ last.id \in DOMAIN evaluations
    /\ evaluations[last.id].last_reminder_sent = NULL

\* C19: the store never holds a note with reminder enabled and no time:
\* update_evaluation_reminder(id, True) without a time is refused.
C19_EnableNeedsTime ==
    \A i \in DOMAIN evaluations :
        evaluations[i].reminder_enabled => evaluations[i].reminder_time # NULL

\* C20: the store never holds a note with neither text nor image:
\* save_evaluation with both absent is refused.
C20_EmptyNoteRefused ==
    \A i \in DOMAIN evaluations :
        evaluations[i].text_note # NONE \/ evaluations[i].image_file_id # NONE

\* The ids of the notes a pass still holds.
BatchIds(j) == {j.batch[k].id : k \in 1..Len(j.batch)}

\* C13: a regular tick selects at most REMINDER_LIMIT notes, all distinct
\* and all from get_due_reminders for the tick's time of day, and every
\* note the tick sends is the next of those selected, each taken once.
C13_TickStep ==
    /\ job'.kind = "tick" =>
        /\ Len(job'.batch) <= REMINDER_LIMIT
        /\ Cardinality(BatchIds(job')) = Len(job'.batch)
    /\ (last'.op = "send_reminders" /\ last'.reply \in {"selected", "nothing_due"}) =>
        /\ job.kind = "none"
        /\ BatchIds(job') \subseteq
              get_due_reminders(evaluations, TimeStr(now), now, TRUE)
    /\ (last'.op = "send_reminders" /\ last'.reply \notin {"selected", "nothing_due"}) =>
        /\ job.kind = "tick" /\ job.pc = "send"
        /\ last'.id = Head(job.batch).id
        /\ \/ job'.batch = job.batch /\ job'.pc = "mark"
           \/ job'.batch = Tail(job.batch)
           \/ job' = NoJob
    /\ (job.kind = "tick" /\ job'.kind = "tick") =>
        BatchIds(job') \subseteq BatchIds(job)

C13_TickDeliversAtMostTwo == [][C13_TickStep]_vars

\* A tick has selected REMINDER_LIMIT notes where more were due.
C13_Witness ==
    /\ last.op = "send_reminders" /\ last.reply = "selected"
    /\ Len(job.batch) = REMINDER_LIMIT
    /\ Cardinality(get_due_reminders(evaluations, TimeStr(now), now, TRUE))
          > REMINDER_LIMIT

\* C16: when the photo of a note fails to send during a delivery, in a
\* regular tick or in the catch-up pass, the owner gets the fallback notice
\* and the pass goes on to stamp the note.
C16_PhotoFailureStep ==
    (/\ last'.op \in {"send_reminders", "send_missed_reminders"}
     /\ last'.reply \in {"photo_failed", "photo_and_notice_failed"}) =>
        /\ "notice" \in Delivered(job.kind, Head(job.batch), job.reminded_users,
                                  last'.reply)
        /\ job'.pc = "mark"
        /\ Head(job'.batch).id = last'.id

C16_PhotoFailureNoticed == [][C16_PhotoFailureStep]_vars

\* Note i is one get_missed_reminders(now) is to return: reminder enabled,
\* reminder_time strictly before now's time of day, not sent today.
MissedNote(i) ==
    /\ i \in DOMAIN evaluations
    /\ evaluations[i].reminder_enabled
    /\ evaluations[i].reminder_time # NULL
    /\ evaluations[i].reminder_time < TimeStr(now)
    /\ ~SentToday(evaluations[i])

CatchUpQueried ==
    /\ last.op = "send_missed_reminders"
    /\ last.reply \in {"found_missed", "nothing_missed"}

\* C15: once the catch-up pass has queried the missed notes, every missed
\* note, however many there are, has its body sent by that pass and is then
\* stamped by it.
C15_CatchUpDeliversAllMissed ==
    \A i \in Ids :
        /\ (CatchUpQueried /\ MissedNote(i)) ~>
              (/\ last.op = "send_missed_reminders" /\ last.by = "catchup"
               /\ last.reply = "sent" /\ last.id = i)
        /\ (CatchUpQueried /\ MissedNote(i)) ~>
              (/\ last.op = "update_last_reminder_sent" /\ last.by = "catchup"
               /\ last.reply = "marked" /\ last.id = i
               /\ evaluations[i].last_reminder_sent = now)

\* A catch-up pass has delivered more notes than a regular tick may and
\* has just stamped one of them.
C15_Witness ==
    /\ last.op = "update_last_reminder_sent" /\ last.by = "catchup"
    /\ last.reply = "marked"
    /\ Cardinality(caughtUp) > REMINDER_LIMIT
    /\ \A i \in caughtUp : SentToday(evaluations[i])

ApplicationReleaseDone == proc \in {"app_released", "release_failed"}

\* C18: on shutdown the timer is stopped before the messaging application
\* is released, also when releasing the application fails: in no state is
\* the release of the application over while the timer still runs.
C18_TimerStoppedFirst == ApplicationReleaseDone => ~TimerRunning

\* C21: a valid time taken by the set-reminder dialogue for a stored note
\* is answered by editing the note's message in place, with no fresh
\* confirmation message, also after invalid times were re-prompted.
C21_SetDialogueTime(u, upd) ==
    (/\ receive_reminder_time(u, upd)
     /\ TakenBy(u, upd) = "set"
     /\ ParseTime(upd) # NULL
     /\ user_data[u].current_evaluation_id_for_reminder \in DOMAIN evaluations) =>
        last'.reply = "edited_in_place"

C21_EditedInPlace ==
    [][\A u \in Users : \A upd \in {t \in DialogUpdates : t.kind = "text"} :
            C21_SetDialogueTime(u, upd)]_vars

\* The keys of context.user_data a conversation of user u holds while it is
\* under way: the creation dialogue its text and image, and the note id once
\* it waits for the time; the set-reminder dialogue the note id and the
\* message to edit.
HeldByNew(u) ==
    IF conv[u].new = END THEN {}
    ELSE IF conv[u].new = REMINDER_TIME
    THEN {"current_evaluation_text", "current_evaluation_image_file_id",
          "current_evaluation_id_for_reminder"}
    ELSE {"current_evaluation_text", "current_evaluation_image_file_id"}

HeldBySet(u) ==
    IF conv[u].set = END THEN {}
    ELSE {"current_evaluation_id_for_reminder", "message_to_edit_id"}

\* C22: a step taken by one conversation of a user leaves the transient
\* memory held by the user's other conversation as it was, whatever the
\* interleaving of the two dialogues.
C22_Step(u, upd) ==
    /\ (Inbound(u, upd) /\ TakenBy(u, upd) = "new") =>
            \A k \in HeldBySet(u) : user_data'[u][k] = user_data[u][k]
    /\ (Inbound(u, upd) /\ TakenBy(u, upd) = "set") =>
            \A k \in HeldByNew(u) : user_data'[u][k] = user_data[u][k]

C22_DialoguesKeepApart ==
    [][\A u \in Users : \A upd \in DialogUpdates : C22_Step(u, upd)]_vars

\* C23: /skip sent while a conversation of the sender waits for the reminder
\* time, whether the creation dialogue or the set-reminder dialogue, empties
\* the sender's transient memory, ends that conversation and changes no note.
C23_Skip(u) ==
    (/\ Inbound(u, Command("/skip"))
     /\ \E c \in {"new", "set"} : conv[u][c] = REMINDER_TIME) =>
        /\ user_data'[u] = EmptyUserData
        /\ \A c \in {"new", "set"} :
                conv[u][c] = REMINDER_TIME => conv'[u][c] = END
        /\ evaluations' = evaluations

C23_SkipEndsReminderDialogue ==
    [][\A u \in Users \ {w \in Users : pre_update_callback(w)} : C23_Skip(u)]_vars

\* The handler a conversation of user u in its present state has for upd.
ConvHandler(u, c, upd) ==
    IF c = "new" THEN new_evaluation_conv_handler(conv[u].new, upd)
    ELSE set_reminder_conv_handler(conv[u].set, upd)

\* A dialogue of u is under way and no state u's dialogues are in has a
\* handler for the command other than the catch-all of the fallbacks.
NotRecognised(u, upd) ==
    /\ upd.kind = "command"
    /\ \E c \in {"new", "set"} : conv[u][c] # END
    /\ \A c \in {"new", "set"} :
            conv[u][c] # END => ConvHandler(u, c, upd) = "unknown_command_in_conv"

\* C24: in any dialogue state a command the state does not recognise is
\* answered with the finish-or-/cancel message and leaves the dialogue
\* state, the transient memory and the store unchanged.
C24_Step(u, upd) ==
    (NotRecognised(u, upd) /\ Inbound(u, upd)) =>
        /\ last'.reply = "finish_or_cancel"
        /\ conv' = conv
        /\ user_data' = user_data
        /\ evaluations' = evaluations

C24_UnknownCommandKeepsState ==
    [][\A u \in Users : \A upd \in DialogUpdates : C24_Step(u, upd)]_vars

\* The text messages and commands a user may send.
Messages == {upd \in DialogUpdates : upd.kind \in {"text", "command"}}

\* C25 as stated: in AWAITING_IMAGE every message other than /done, plain
\* text or command, /new_evaluation included, is answered by a re-prompt and
\* leaves the dialogue in AWAITING_IMAGE and the store unchanged.
C25_AsStated(u, upd) ==
    (/\ conv[u].new = IMAGE_NOTE
     /\ upd # Command("/done")
     /\ Inbound(u, upd)) =>
        /\ conv'[u].new = IMAGE_NOTE
        /\ evaluations' = evaluations

C25_Amended(u, upd) ==
    (conv[u].new = IMAGE_NOTE /\ Inbound(u, upd)) =>
        /\ evaluations' = evaluations
        /\ upd.kind = "text" =>
                /\ last'.reply = "only_image_or_done"
                /\ conv' = conv
                /\ user_data' = user_data
        /\ (upd.kind = "command"
                /\ upd.s \notin {"/done", "/cancel", "/new_evaluation"}) =>
                /\ last'.reply \in {"finish_or_cancel", "welcome",
                                    "no_evaluations", "listed"}
                /\ conv' = conv
                /\ user_data' = user_data
        /\ upd = Command("/new_evaluation") =>
                /\ last'.reply = "ask_text"
                /\ conv'[u].new = TEXT_NOTE
        /\ upd = Command("/cancel") => conv'[u].new = END

HeldImage(u) == Get(user_data[u].current_evaluation_image_file_id)

\* C26: the image reference of the note persisted on /done is the last
\* image received after the most recent accepted text of that dialogue, and
\* absent when none was received after it; an image of an earlier text or an
\* earlier dialogue is never stored.  Step by step: AWAITING_IMAGE is
\* entered only by an accepted text, which resets the held image; in
\* AWAITING_IMAGE an image replaces the held one and nothing else changes
\* it; /done persists the held image.
C26_Step(u) ==
    /\ (conv'[u].new = IMAGE_NOTE /\ conv[u].new # IMAGE_NOTE) =>
            /\ \E upd \in DialogUpdates : receive_text_note(u, upd)
            /\ HeldImage(u)' = NONE
    /\ \A upd \in DialogUpdates :
            receive_text_note(u, upd) =>
                HeldImage(u)' = NONE /\ conv'[u].new = IMAGE_NOTE
    /\ \A f \in Images :
            receive_image_note(u, Photo(f)) =>
                HeldImage(u)' = f /\ conv'[u].new = IMAGE_NOTE
    /\ (/\ conv[u].new = IMAGE_NOTE
        /\ conv'[u].new = IMAGE_NOTE
        /\ ~ \E f \in Images : receive_image_note(u, Photo(f))) =>
            HeldImage(u)' = HeldImage(u)
    /\ (receive_image_note(u, Command("/done")) /\ evaluations' # evaluations) =>
            /\ conv[u].new = IMAGE_NOTE
            /\ DOMAIN evaluations' = DOMAIN evaluations \cup {NextId(evaluations)}
            /\ evaluations'[NextId(evaluations)].image_file_id = HeldImage(u)
            /\ \A i \in DOMAIN evaluations : evaluations'[i] = evaluations[i]

C26_LastImageAfterTextIsStored ==
    [][\A u \in Users : C26_Step(u)]_vars

C26_Witness ==
    /\ last.op = "receive_image_note"
    /\ last.reply = "saved_ask_time"
    /\ last.id \in DOMAIN evaluations
    /\ evaluations[last.id].text_note # NONE
    /\ evaluations[last.id].image_file_id = NONE
    /\ HeldImage(last.user) = NONE

\* C27: within one regular tick a failure to send the header or the body
\* of a selected note does not stop the tick: the loop goes on with the
\* notes selected after it, none dropped, and the next one is attempted.
C27_FailureStep ==
    (/\ last'.op = "send_reminders"
     /\ last'.reply \in {"header_failed", "body_failed"}) =>
        /\ job.kind = "tick" /\ job.pc = "send"
        /\ evaluations' = evaluations
        /\ Len(job.batch) > 1 =>
                /\ job'.kind = "tick"
                /\ job'.pc = "send"
                /\ job'.batch = Tail(job.batch)

C27_NextAttempted ==
    (job.kind = "tick" /\ job.pc = "send") =>
        /\ job.batch # <<>>
        /\ ENABLED SendItem

C27_FailedSendDoesNotStopTick ==
    [][C27_FailureStep]_vars /\ []C27_NextAttempted

C27_Witness ==
    /\ last.op = "send_reminders"
    /\ last.reply \in {"header_failed", "body_failed"}
    /\ job.kind = "tick" /\ job.pc = "send"
    /\ Len(job.batch) >= 1
    /\ last.id \notin BatchIds(job)

\* The scheduler step changed last_reminder_sent of note i to a timestamp.
Stamped(i) ==
    /\ i \in DOMAIN evaluations /\ i \in DOMAIN evaluations'
    /\ evaluations'[i].last_reminder_sent # evaluations[i].last_reminder_sent
    /\ evaluations'[i].last_reminder_sent # NULL

\* The step saved a new note under id i.
SavedAs(i) == i \notin DOMAIN evaluations /\ i \in DOMAIN evaluations'

\* C28: the scheduler stamps last_reminder_sent on a note only after that
\* note's body was sent successfully in the same pass, and a note whose
\* body send failed keeps its previous last_reminder_sent.  The stamp is
\* written only by the mark-sent step of the note at the head of the pass;
\* that step is reached only by a send step of the same note whose body went
\* out; between the two the id does not pass to another note; a failed
\* header or body changes no row and takes the note out of the pass.
C28_Step ==
    /\ \A i \in Ids :
        Stamped(i) =>
            /\ last'.op = "update_last_reminder_sent"
            /\ job.kind # "none" /\ job.pc = "mark"
            /\ Head(job.batch).id = i
    /\ (job'.pc = "mark" /\ job.pc # "mark") =>
            /\ last'.op \in {"send_reminders", "send_missed_reminders"}
            /\ BodySent(last'.reply)
            /\ job'.batch = job.batch
            /\ last'.id = Head(job.batch).id
    /\ (job.pc = "mark" /\ job'.pc = "mark") =>
            /\ job' = job
            /\ ~ SavedAs(Head(job.batch).id)
    /\ (/\ last'.op \in {"send_reminders", "send_missed_reminders"}
        /\ last'.reply \in {"header_failed", "body_failed"}) =>
            /\ evaluations' = evaluations
            /\ job'.pc = "send"
            /\ last'.id \notin BatchIds(job')

C28_StampOnlyAfterBody == [][C28_Step]_vars

\* C29: in every reachable state a note with reminder_enabled false has
\* last_reminder_sent null, also when the owner disables the reminder while
\* a tick or catch-up pass that selected the note is between its sends and
\* its mark-sent step.
C29_DisabledNeverStamped ==
    \A i \in DOMAIN evaluations :
        ~evaluations[i].reminder_enabled =>
            evaluations[i].last_reminder_sent = NULL

\* C30: once the owner's confirmed delete of a note has returned true, the
\* scheduler never sends that note's body or image again, also when the
\* delete happens while a tick or catch-up pass iterates over a batch that
\* holds the note: every body a pass sends is of a note still in the table.
C30_SendStep ==
    (/\ last'.op \in {"send_reminders", "send_missed_reminders"}
     /\ last'.reply \notin {"selected", "nothing_due", "found_missed",
                            "nothing_missed"}
     /\ BodySent(last'.reply)) =>
        last'.id \in DOMAIN evaluations

C30_DeletedNoteNeverSent == [][C30_SendStep]_vars

\* The dialogues taken up where an earlier run left them: the table holds
\* the notes 1..NoteCap of earlier dialogues, of the owner or, written while
\* ADMIN_CHAT_ID named someone else, of another user; the owner's creation
\* dialogue has just saved the note CreatedId on /done and waits for its
\* reminder time.  No failure is injected.
CreatedId == NoteCap + 1

RestoredRows ==
    {[Evaluation(u, "t1", NONE) EXCEPT !.reminder_enabled = e,
                                       !.reminder_time = IF e THEN 0 ELSE NULL] :
        u \in Users, e \in BOOLEAN}

InitRestored ==
    /\ \E db \in [1..CreatedId -> RestoredRows] :
        /\ db[CreatedId] = Evaluation(ADMIN_CHAT_ID, "t1", NONE)
        /\ evaluations = db
    /\ user_data = [u \in Users |->
                        IF u = ADMIN_CHAT_ID
                        THEN [EmptyUserData EXCEPT
                                !.current_evaluation_text = "t1",
                                !.current_evaluation_image_file_id = NONE,
                                !.current_evaluation_id_for_reminder = CreatedId]
                        ELSE EmptyUserData]
    /\ conv = [u \in Users |->
                  [new |-> IF u = ADMIN_CHAT_ID THEN REMINDER_TIME ELSE END,
                   set |-> END]]
    /\ now = 0
    /\ proc = "down"
    /\ tickDue = FALSE
    /\ job = NoJob
    /\ faults = FALSE
    /\ bodySends = [i \in Ids |-> 0]
    /\ caughtUp = {}
    /\ last = Said("init", 0, "none", "nothing")

SpecRestored == InitRestored /\ [][NextDialog]_vars

\* The note id user u's transient memory holds for the reminder step.
HeldId(u) == user_data[u].current_evaluation_id_for_reminder

\* C31: a valid time entered in the reminder step of a creation dialogue is
\* applied to the note this dialogue created and to no other, also when the
\* owner presses the set-reminder button of another note between /done and
\* the time.  Step by step: /done holds the id of the note it saved; while
\* the creation dialogue waits for the time the held id stays; the time
\* taken by the creation dialogue changes the held note at most.
C31_Step(u) ==
    /\ (receive_image_note(u, Command("/done")) /\ conv'[u].new = REMINDER_TIME) =>
            /\ SavedAs(HeldId(u)')
            /\ evaluations'[HeldId(u)'].user_id = u
    /\ (conv[u].new = REMINDER_TIME /\ conv'[u].new = REMINDER_TIME) =>
            HeldId(u)' = HeldId(u)
    /\ \A upd \in DialogUpdates :
        (receive_reminder_time(u, upd) /\ TakenBy(u, upd) = "new") =>
            \A i \in DOMAIN evaluations :
                evaluations'[i] # evaluations[i] => i = HeldId(u)

C31_TimeGoesToCreatedNote == [][\A u \in Users : C31_Step(u)]_vars

\* C32: a disable-reminder button press or a reminder-time entry by user u
\* changes the reminder fields only of notes owned by u; a note owned by
\* another user is left as it was.
C32_Step(u, upd) ==
    (button_disable_reminder(u, upd) \/ receive_reminder_time(u, upd)) =>
        \A i \in DOMAIN evaluations :
            evaluations[i].user_id # u =>
                /\ i \in DOMAIN evaluations'
                /\ evaluations'[i] = evaluations[i]

C32_OnlyOwnNotesChanged ==
    [][\A u \in Users : \A upd \in DialogUpdates : C32_Step(u, upd)]_vars

\* The scheduler from one process start on, over a table left by earlier
\* runs, where no send and no store operation fails and the process keeps
\* running day after day: minutes pass, the cron trigger fires every minute
\* and a pass, once started, runs to its end within the minute.
MinutePasses == ~tickDue /\ AdvanceDays

NextStartup ==
    \/ send_missed_reminders
    \/ send_reminders
    \/ SendItem
    \/ MarkItem
    \/ MinutePasses

SpecStartup ==
    /\ InitBacklogReliable
    /\ [][NextStartup]_vars
    /\ WF_vars(send_reminders)
    /\ WF_vars(SendItem)
    /\ WF_vars(MarkItem)
    /\ WF_vars(MinutePasses)

\* Note i has its reminder enabled, was not sent today and its
\* reminder_time is at or before the present hour:minute; no more than
\* REMINDER_LIMIT notes have their reminder enabled for that time.
DueByNow(i) ==
    /\ i \in DOMAIN evaluations
    /\ evaluations[i].reminder_enabled
    /\ evaluations[i].reminder_time # NULL
    /\ evaluations[i].reminder_time <= TimeStr(now)
    /\ ~SentToday(evaluations[i])
    /\ Cardinality({j \in DOMAIN evaluations :
                        /\ evaluations[j].reminder_enabled
                        /\ evaluations[j].reminder_time = evaluations[i].reminder_time})
            <= REMINDER_LIMIT

\* The body of note i has just been sent on day d.
BodySentOn(i, d) ==
    /\ last.op \in {"send_reminders", "send_missed_reminders"}
    /\ last.reply = "sent"
    /\ last.id = i
    /\ DateOf(now) = d

\* C33: after a process start at time T every note with its reminder
\* enabled, not sent today and its reminder_time at or before T's
\* hour:minute is delivered on that day, by the catch-up pass or by a
\* regular tick, where sends succeed and at most REMINDER_LIMIT notes share
\* that time.  Stated for a start on day 0, the day the clock runs through
\* to its end.
C33_DueAtStartDeliveredToday ==
    \A i \in Ids :
        (CatchUpQueried /\ DateOf(now) = 0 /\ DueByNow(i)) ~> BodySentOn(i, 0)

\* C34: among the button actions only confirm_delete removes a note:
\* delete_eval and cancel_delete leave the store unchanged, and every step
\* that removes a note is a confirmation press for that very note, which
\* removes no other note and changes none.
C34_Step ==
    /\ last'.op \in {"button_delete_eval", "button_cancel_delete"} =>
            evaluations' = evaluations
    /\ \A i \in DOMAIN evaluations :
        i \notin DOMAIN evaluations' =>
            /\ last'.op = "button_confirm_delete"
            /\ last'.reply = "deleted"
            /\ last'.id = i
            /\ last'.user = evaluations[i].user_id
            /\ DOMAIN evaluations' = DOMAIN evaluations \ {i}
            /\ \A j \in DOMAIN evaluations' : evaluations'[j] = evaluations[j]

C34_OnlyConfirmDeleteRemoves == [][C34_Step]_vars

\* The delete button was pressed on a stored note, which is still there.
C34_Witness ==
    /\ last.op = "button_delete_eval"
    /\ last.reply = "ask_confirmation"
    /\ last.id \in DOMAIN evaluations
    /\ evaluations[last.id].user_id = last.user

=============================================================================
